---- MODULE Spec2Model ----
(***************************************************************************)
(* A model of file_parser.py: the FileParser dispatcher (parse), its       *)
(* per-format decoders (generator functions), the consumer of the lazy     *)
(* sequence, and the command-line adapter (main).                          *)
(*                                                                         *)
(* Text is a sequence of one-character strings, so that strip, ljust,      *)
(* split and slicing are computed character by character.  A file is a     *)
(* sequence of lines, each line carrying its "\n" terminator when it has   *)
(* one, as iteration over a Python text stream delivers them.              *)
(*                                                                         *)
(* A record (a Python dict) is a function from field name (a string) to a  *)
(* tagged value [t |-> kind, v |-> payload], kind being one of "str",      *)
(* "int", "none", "list", "dict".                                          *)
(***************************************************************************)
EXTENDS Integers, Sequences, FiniteSets, TLC

Min(a, b) == IF a <= b THEN a ELSE b

(***************************************************************************)
(* Python str primitives used by the decoders.                             *)
(***************************************************************************)

\* The characters str.strip() removes, among those the inputs are drawn from.
Whitespace == {" ", "\t", "\n"}

RECURSIVE LStripSet(_, _)
LStripSet(s, cs) ==
    IF s # <<>> /\ Head(s) \in cs THEN LStripSet(Tail(s), cs) ELSE s

RECURSIVE RStripSet(_, _)
RStripSet(s, cs) ==
    IF s # <<>> /\ s[Len(s)] \in cs
    THEN RStripSet(SubSeq(s, 1, Len(s) - 1), cs)
    ELSE s

\* s.strip()
Strip(s) == RStripSet(LStripSet(s, Whitespace), Whitespace)

\* s.rstrip("\n")
RstripNewline(s) == RStripSet(s, {"\n"})

\* s.ljust(n)
Ljust(s, n) == IF Len(s) >= n THEN s ELSE s \o [i \in 1..(n - Len(s)) |-> " "]

\* s[lo:hi] for 0 <= lo and 0 <= hi: never raises, clips at the end of s.
Slice(s, lo, hi) ==
    LET h == Min(hi, Len(s))
    IN  IF lo >= h THEN <<>> ELSE SubSeq(s, lo + 1, h)

\* The Python str a character sequence stands for.
RECURSIVE Join(_)
Join(s) == IF s = <<>> THEN "" ELSE Head(s) \o Join(Tail(s))

\* s.split(sep) for a one-character sep: Len(result) = 1 + occurrences of sep.
RECURSIVE SplitAcc(_, _, _)
SplitAcc(s, sep, cur) ==
    IF s = <<>> THEN <<cur>>
    ELSE IF Head(s) = sep THEN <<cur>> \o SplitAcc(Tail(s), sep, <<>>)
    ELSE SplitAcc(Tail(s), sep, Append(cur, Head(s)))

Split(s, sep) == SplitAcc(s, sep, <<>>)

\* s.split(sep, 1)
RECURSIVE IndexOf(_, _, _)
IndexOf(s, c, i) ==
    IF i > Len(s) THEN 0 ELSE IF s[i] = c THEN i ELSE IndexOf(s, c, i + 1)

Split1(s, sep) ==
    LET k == IndexOf(s, sep, 1)
    IN  IF k = 0 THEN <<s>>
        ELSE <<Slice(s, 0, k - 1), Slice(s, k, Len(s))>>

\* Concatenation of the lines of a file: what f.read() returns.
RECURSIVE Concat(_)
Concat(ls) == IF ls = <<>> THEN <<>> ELSE Head(ls) \o Concat(Tail(ls))

(***************************************************************************)
(* Tagged values and dicts.                                                *)
(***************************************************************************)
StrV(s) == [t |-> "str", v |-> Join(s)]
IntV(n) == [t |-> "int", v |-> n]
NoneV == [t |-> "none", v |-> "None"]
ListV(l) == [t |-> "list", v |-> l]
DictV(d) == [t |-> "dict", v |-> d]

EmptyDict == <<>>

\* d[k] = v
DictSet(d, k, v) == [x \in (DOMAIN d) \cup {k} |-> IF x = k THEN v ELSE d[x]]

(***************************************************************************)
(* json.loads(s): the JSON grammar restricted to objects, arrays, strings  *)
(* without escapes and unsigned integers, which is all of JSON that the    *)
(* characters of the inputs can spell.  Any other text is a                *)
(* JSONDecodeError (ok = FALSE).                                           *)
(***************************************************************************)
JsonWs == {" ", "\t", "\n"}
Digits == {"0", "1", "2", "3", "4", "5", "6", "7", "8", "9"}

DigitVal(c) ==
    CASE c = "0" -> 0 [] c = "1" -> 1 [] c = "2" -> 2 [] c = "3" -> 3
      [] c = "4" -> 4 [] c = "5" -> 5 [] c = "6" -> 6 [] c = "7" -> 7
      [] c = "8" -> 8 [] c = "9" -> 9

JsonFail == [ok |-> FALSE, val |-> NoneV, pos |-> 0]

RECURSIVE SkipWs(_, _)
SkipWs(s, i) == IF i <= Len(s) /\ s[i] \in JsonWs THEN SkipWs(s, i + 1) ELSE i

\* A run of digits from position i, with the value read so far.
RECURSIVE JsonDigits(_, _, _)
JsonDigits(s, i, acc) ==
    IF i <= Len(s) /\ s[i] \in Digits
    THEN JsonDigits(s, i + 1, 10 * acc + DigitVal(s[i]))
    ELSE [ok |-> TRUE, val |-> IntV(acc), pos |-> i]

\* A number: "0", or a non-zero digit and the digits after it.
JsonNumber(s, i) ==
    IF s[i] = "0" THEN [ok |-> TRUE, val |-> IntV(0), pos |-> i + 1]
    ELSE JsonDigits(s, i, 0)

\* The closing quote of the string opened before position i; 0 when the string
\* is unterminated or holds a control character.
RECURSIVE JsonStringEnd(_, _)
JsonStringEnd(s, i) ==
    IF i > Len(s) THEN 0
    ELSE IF s[i] = "\"" THEN i
    ELSE IF s[i] \in {"\n", "\t"} THEN 0
    ELSE JsonStringEnd(s, i + 1)

JsonString(s, i) ==
    IF ~(i <= Len(s) /\ s[i] = "\"") THEN JsonFail
    ELSE LET e == JsonStringEnd(s, i + 1)
         IN  IF e = 0 THEN JsonFail
             ELSE [ok |-> TRUE, val |-> StrV(Slice(s, i, e - 1)), pos |-> e + 1]

RECURSIVE JsonValue(_, _), JsonMembers(_, _, _), JsonElements(_, _, _)

\* The members of an object from the key at position i up to the closing brace.
JsonMembers(s, i, acc) ==
    LET k == JsonString(s, i)
    IN  IF ~k.ok THEN JsonFail
        ELSE LET c == SkipWs(s, k.pos)
             IN  IF ~(c <= Len(s) /\ s[c] = ":") THEN JsonFail
                 ELSE LET m == JsonValue(s, SkipWs(s, c + 1))
                      IN  IF ~m.ok THEN JsonFail
                          ELSE LET acc2 == DictSet(acc, k.val.v, m.val)
                                   e == SkipWs(s, m.pos)
                               IN  IF e > Len(s) THEN JsonFail
                                   ELSE IF s[e] = "}"
                                   THEN [ok |-> TRUE, val |-> DictV(acc2), pos |-> e + 1]
                                   ELSE IF s[e] = ","
                                   THEN JsonMembers(s, SkipWs(s, e + 1), acc2)
                                   ELSE JsonFail

\* The elements of an array from the value at position i up to the bracket.
JsonElements(s, i, acc) ==
    LET m == JsonValue(s, i)
    IN  IF ~m.ok THEN JsonFail
        ELSE LET acc2 == Append(acc, m.val)
                 e == SkipWs(s, m.pos)
             IN  IF e > Len(s) THEN JsonFail
                 ELSE IF s[e] = "]"
                 THEN [ok |-> TRUE, val |-> ListV(acc2), pos |-> e + 1]
                 ELSE IF s[e] = ","
                 THEN JsonElements(s, SkipWs(s, e + 1), acc2)
                 ELSE JsonFail

JsonValue(s, i) ==
    IF i > Len(s) THEN JsonFail
    ELSE IF s[i] = "{"
    THEN LET j == SkipWs(s, i + 1)
         IN  IF j <= Len(s) /\ s[j] = "}"
             THEN [ok |-> TRUE, val |-> DictV(EmptyDict), pos |-> j + 1]
             ELSE JsonMembers(s, j, EmptyDict)
    ELSE IF s[i] = "["
    THEN LET j == SkipWs(s, i + 1)
         IN  IF j <= Len(s) /\ s[j] = "]"
             THEN [ok |-> TRUE, val |-> ListV(<<>>), pos |-> j + 1]
             ELSE JsonElements(s, j, <<>>)
    ELSE IF s[i] = "\"" THEN JsonString(s, i)
    ELSE IF s[i] \in Digits THEN JsonNumber(s, i)
    ELSE JsonFail

\* json.loads(s): one value between optional whitespace, and nothing after it.
JsonLoads(s) ==
    LET m == JsonValue(s, SkipWs(s, 1))
    IN  IF m.ok /\ SkipWs(s, m.pos) = Len(s) + 1 THEN m ELSE JsonFail


(***************************************************************************)
(* Format resolution.                                                      *)
(***************************************************************************)

\* c.lower() for one character.
LowerChar(c) ==
    CASE c = "A" -> "a" [] c = "B" -> "b" [] c = "C" -> "c" [] c = "D" -> "d"
      [] c = "E" -> "e" [] c = "F" -> "f" [] c = "G" -> "g" [] c = "H" -> "h"
      [] c = "I" -> "i" [] c = "J" -> "j" [] c = "K" -> "k" [] c = "L" -> "l"
      [] c = "M" -> "m" [] c = "N" -> "n" [] c = "O" -> "o" [] c = "P" -> "p"
      [] c = "Q" -> "q" [] c = "R" -> "r" [] c = "S" -> "s" [] c = "T" -> "t"
      [] c = "U" -> "u" [] c = "V" -> "v" [] c = "W" -> "w" [] c = "X" -> "x"
      [] c = "Y" -> "y" [] c = "Z" -> "z" [] OTHER -> c

\* s.lower()
Lower(s) == [i \in 1..Len(s) |-> LowerChar(s[i])]

\* The index of the last occurrence of c in s at or before i, 0 when none.
RECURSIVE LastIndexOf(_, _, _)
LastIndexOf(s, c, i) ==
    IF i < 1 THEN 0 ELSE IF s[i] = c THEN i ELSE LastIndexOf(s, c, i - 1)

\* os.path.splitext(path)[1]: from the last dot of the last path component, the
\* leading dots of that component not counting.
SplitExt(path) ==
    LET sep == LastIndexOf(path, "/", Len(path))
        dot == LastIndexOf(path, ".", Len(path))
    IN  IF dot <= sep THEN <<>>
        ELSE IF \A i \in (sep + 1)..dot : path[i] = "." THEN <<>>
        ELSE SubSeq(path, dot, Len(path))

_guess_format(path) ==
    LET ext == Join(Lower(SplitExt(path)))
    IN  IF ext \in {".csv"} THEN "csv"
        ELSE IF ext \in {".tsv", ".tab"} THEN "tsv"
        ELSE IF ext \in {".json"} THEN "json"
        ELSE IF ext \in {".ndjson", ".jsonl"} THEN "ndjson"
        ELSE IF ext \in {".xml"} THEN "xml"
        ELSE IF ext \in {".ini", ".cfg"} THEN "ini"
        ELSE IF ext \in {".txt", ".log"} THEN "text"
        ELSE "unknown"

\* parser_map: format tag -> decoder.  The aliases share a decoder.
parser_map ==
    [csv |-> "_parse_csv", tsv |-> "_parse_tsv", json |-> "_parse_json",
     ndjson |-> "_parse_ndjson", jsonl |-> "_parse_ndjson", xml |-> "_parse_xml",
     ini |-> "_parse_ini", text |-> "_parse_text", log |-> "_parse_text",
     fixed |-> "_parse_fixed_width", unknown |-> "_parse_unknown"]

\* The absent value of an optional argument (Python None).
None == <<"<None>">>

\* fmt after lines 91-93: the guess from the name when fmt is None, lower-cased.
ResolveFormat(fmt, nm) ==
    IF fmt = None THEN _guess_format(nm) ELSE Join(Lower(fmt))

(***************************************************************************)
(* Record builders: the body of each decoder's loop.                       *)
(***************************************************************************)

\* {"line_no": i, "text": line.rstrip("\n")}
TextRecord(i, line) ==
    DictSet(DictSet(EmptyDict, "line_no", IntV(i)), "text", StrV(RstripNewline(line)))

\* One line of _parse_ndjson after line.strip(): the parsed mapping, a wrapped
\* non-mapping, or the line itself under "raw" when json.loads fails.
NdjsonRecord(line) ==
    LET m == JsonLoads(line)
    IN  IF m.ok
        THEN IF m.val.t = "dict" THEN m.val.v ELSE DictSet(EmptyDict, "value", m.val)
        ELSE DictSet(EmptyDict, "raw", StrV(line))

\* A decoder that took only the newline off its lines.
NdjsonLineUnstripped(line) == RstripNewline(line)

\* The line _parse_ndjson works on.
NdjsonLine(line) == Strip(line)

\* One element of a JSON document that is a list.
JsonItemRecord(item) ==
    IF item.t = "dict" THEN item.v ELSE DictSet(EmptyDict, "value", item)

\* The records of a parsed JSON document (lines 148-155).
JsonDocRecords(data) ==
    IF data.t = "list" THEN [i \in 1..Len(data.v) |-> JsonItemRecord(data.v[i])]
    ELSE IF data.t = "dict" THEN <<data.v>>
    ELSE <<DictSet(EmptyDict, "value", data)>>

\* A fixed-width schema argument: absent (None) or a list of <<name, width>>.
NoSchema == [given |-> FALSE, pairs |-> <<>>]
Schema(pairs) == [given |-> TRUE, pairs |-> pairs]

\* not fixed_schema
SchemaMissing(schema) == ~schema.given \/ schema.pairs = <<>>

RECURSIVE SumWidths(_)
SumWidths(pairs) == IF pairs = <<>> THEN 0 ELSE Head(pairs)[2] + SumWidths(Tail(pairs))

\* chunk.strip() of raw[pos:pos+width]
FieldValue(raw, pos, width) == StrV(Strip(Slice(raw, pos, pos + width)))

\* A loop that never moved on from the first field.
NextPosStuck(pos, width) == pos

\* pos += width
NextPos(pos, width) == pos + width

\* The loop over zip(names, widths), from field i on.
RECURSIVE FixedFields(_, _, _, _, _)
FixedFields(raw, pairs, i, pos, rec) ==
    IF i > Len(pairs) THEN rec
    ELSE FixedFields(raw, pairs, i + 1, NextPos(pos, pairs[i][2]),
                     DictSet(rec, pairs[i][1], FieldValue(raw, pos, pairs[i][2])))

\* line.rstrip("\n").ljust(total_width)
PaddedLine(pairs, line) == Ljust(RstripNewline(line), SumWidths(pairs))

\* One record of _parse_fixed_width.
FixedRecord(pairs, line, line_no) ==
    DictSet(FixedFields(PaddedLine(pairs, line), pairs, 1, 0, EmptyDict),
            "_line_no", IntV(line_no))

\* The key csv.DictReader files surplus fields under (restkey = None).
RestKey == "<None>"

\* A row as csv.reader parses one line: the fields between delimiters, and no
\* field at all for an empty line.  The inputs hold no quote character.
CsvRow(line, delim) ==
    LET body == RstripNewline(line)
    IN  IF body = <<>> THEN <<>> ELSE Split(body, delim)

\* dict(zip(fieldnames, row))
RECURSIVE ZipDict(_, _, _, _)
ZipDict(names, row, i, d) ==
    IF i > Min(Len(names), Len(row)) THEN d
    ELSE ZipDict(names, row, i + 1, DictSet(d, Join(names[i]), StrV(row[i])))

\* A reader that left the fields of a short row out of its dict.
FillRestAbsent(names, i, d) == d

\* d[key] = restval for the header's fields the row is too short for.
RECURSIVE FillRest(_, _, _)
FillRest(names, i, d) ==
    IF i > Len(names) THEN d
    ELSE FillRest(names, i + 1, DictSet(d, Join(names[i]), NoneV))

\* The dict csv.DictReader makes of a non-empty row.
DictRow(names, row) ==
    LET d == ZipDict(names, row, 1, EmptyDict)
    IN  IF Len(names) < Len(row)
        THEN DictSet(d, RestKey,
                     ListV([i \in 1..(Len(row) - Len(names)) |-> StrV(row[Len(names) + i])]))
        ELSE IF Len(names) > Len(row) THEN FillRest(names, Len(row) + 1, d)
        ELSE d

\* An element's text: None or a str.
TextV(text) == IF text = None THEN NoneV ELSE StrV(text)

\* rec.update(child.attrib): attrib is a sequence of <<name, value>>.
RECURSIVE AttribDict(_, _, _)
AttribDict(attrib, i, d) ==
    IF i > Len(attrib) THEN d
    ELSE AttribDict(attrib, i + 1, DictSet(d, attrib[i][1], StrV(attrib[i][2])))

\* The loop over the sub-elements of a child (lines 178-186).
RECURSIVE SubElements(_, _, _)
SubElements(subs, i, rec) ==
    IF i > Len(subs) THEN rec
    ELSE LET tag == subs[i].tag
             text == TextV(subs[i].text)
         IN  SubElements(subs, i + 1,
                 IF tag \in DOMAIN rec
                 THEN IF rec[tag].t = "list"
                      THEN DictSet(rec, tag, ListV(Append(rec[tag].v, text)))
                      ELSE DictSet(rec, tag, ListV(<<rec[tag], text>>))
                 ELSE DictSet(rec, tag, text))

\* One record of _parse_xml: a direct child of the root (lines 175-190).
XmlRecord(child) ==
    LET rec == SubElements(child.subs, 1, AttribDict(child.attrib, 1, EmptyDict))
    IN  IF rec = EmptyDict /\ child.text # None /\ Strip(child.text) # <<>>
        THEN DictSet(EmptyDict, "text", StrV(Strip(child.text)))
        ELSE rec

\* One record of _parse_ini: a section is [name, items], items <<key, value>>.
RECURSIVE IniItems(_, _, _)
IniItems(items, i, rec) ==
    IF i > Len(items) THEN rec
    ELSE IniItems(items, i + 1, DictSet(rec, items[i][1], StrV(items[i][2])))

IniRecord(section) ==
    IniItems(section.items, 1, DictSet(EmptyDict, "__section__", StrV(section.name)))

(***************************************************************************)
(* Library parsers of whole documents.                                     *)
(***************************************************************************)

\* ET.parse(f).getroot() on the text of a file.  A document is one root
\* element with white space around it at most; of the texts files are made of
\* only the empty element <r/> is one, its root without children.  Any other
\* text is not well formed ("no element found", "syntax error", "junk after
\* document element").
EtParseLenient(text) ==
    [ok |-> Strip(text) \in {<<>>, <<"<", "r", "/", ">">>}, root |-> <<>>]

EtParse(text) ==
    [ok |-> Strip(text) = <<"<", "r", "/", ">">>, root |-> <<>>]

\* The first line from position i on (1-based) that is not blank, 0 when none.
RECURSIVE FirstNonBlank(_, _)
FirstNonBlank(lines, i) ==
    IF i > Len(lines) THEN 0
    ELSE IF Strip(lines[i]) # <<>> THEN i
    ELSE FirstNonBlank(lines, i + 1)

\* ConfigParser.read_file(f) from line pos + 1 on.  The characters files are
\* drawn from hold no "[", so no line is a section header: the first non-blank
\* line has no section to belong to (MissingSectionHeaderError, raised as the
\* line is read), and a file of blank lines has no sections.
IniRead(lines, pos) ==
    LET k == FirstNonBlank(lines, pos + 1)
    IN  IF k = 0 THEN [ok |-> TRUE, sections |-> <<>>, pos |-> Len(lines)]
        ELSE [ok |-> FALSE, sections |-> <<>>, pos |-> k]

(***************************************************************************)
(* Exceptions.                                                             *)
(***************************************************************************)
NoErr == [type |-> "", msg |-> ""]
ClosedFileError == [type |-> "ValueError", msg |-> "I/O operation on closed file."]
SchemaRequiredError ==
    [type |-> "ValueError", msg |-> "fixed_schema is required for fixed-width parsing"]
UnsupportedFormatError(fmt) ==
    [type |-> "ValueError", msg |-> "Unsupported format: " \o fmt]
JSONDecodeError == [type |-> "JSONDecodeError", msg |-> ""]
ParseError == [type |-> "ParseError", msg |-> ""]
MissingSectionHeaderError == [type |-> "MissingSectionHeaderError", msg |-> ""]

(***************************************************************************)
(* Generators.  Calling a decoder only creates its frame (st = "created"); *)
(* its body runs when the frame is resumed by next(), up to the next       *)
(* yield, the end of the body or an exception.  A frame holds the          *)
(* decoder's locals: the enumerate counter, the DictReader's fieldnames    *)
(* and the records of a whole document still to be yielded.                *)
(***************************************************************************)
NoGen ==
    [st |-> "none", fn |-> "", line_no |-> 0, has_fieldnames |-> FALSE,
     fieldnames |-> <<>>, items |-> <<>>]

\* parser(f, csv_delimiter=..., fixed_schema=...): no line of the body runs.
NewGen(fn) == [NoGen EXCEPT !.st = "created", !.fn = fn]

\* What resuming a frame comes to: a record yielded, the end of the body
\* (StopIteration), or an exception; with the frame and the stream position.
Yield(rec, g, pos) ==
    [kind |-> "yield", rec |-> rec, err |-> NoErr,
     g |-> [g EXCEPT !.st = "suspended"], pos |-> pos]
Stop(g, pos) ==
    [kind |-> "stop", rec |-> EmptyDict, err |-> NoErr,
     g |-> [g EXCEPT !.st = "finished"], pos |-> pos]
Raise(e, g, pos) ==
    [kind |-> "raise", rec |-> EmptyDict, err |-> e,
     g |-> [g EXCEPT !.st = "raised"], pos |-> pos]

\* for i, line in enumerate(f, start=1): yield {"line_no": i, "text": ...}
_parse_text(g, isOpen, pos, lines) ==
    IF ~isOpen THEN Raise(ClosedFileError, g, pos)
    ELSE IF pos >= Len(lines) THEN Stop(g, pos)
    ELSE Yield(TextRecord(g.line_no + 1, lines[pos + 1]),
               [g EXCEPT !.line_no = @ + 1], pos + 1)

_parse_unknown(g, isOpen, pos, lines) ==
    IF ~isOpen THEN Raise(ClosedFileError, g, pos)
    ELSE IF pos >= Len(lines) THEN Stop(g, pos)
    ELSE Yield(TextRecord(g.line_no + 1, lines[pos + 1]),
               [g EXCEPT !.line_no = @ + 1], pos + 1)

\* The schema check is the first statement of the body: it runs on the first
\* resumption, before the stream is touched.
_parse_fixed_width(g, isOpen, pos, lines, fixed_schema) ==
    IF g.st = "created" /\ SchemaMissing(fixed_schema)
    THEN Raise(SchemaRequiredError, g, pos)
    ELSE IF ~isOpen THEN Raise(ClosedFileError, g, pos)
    ELSE IF pos >= Len(lines) THEN Stop(g, pos)
    ELSE Yield(FixedRecord(fixed_schema.pairs, lines[pos + 1], g.line_no + 1),
               [g EXCEPT !.line_no = @ + 1], pos + 1)

\* for line in f: blank lines are skipped (continue), any other yields.
RECURSIVE _parse_ndjson(_, _, _, _)
_parse_ndjson(g, isOpen, pos, lines) ==
    IF ~isOpen THEN Raise(ClosedFileError, g, pos)
    ELSE IF pos >= Len(lines) THEN Stop(g, pos)
    ELSE IF NdjsonLine(lines[pos + 1]) = <<>> THEN _parse_ndjson(g, isOpen, pos + 1, lines)
    ELSE Yield(NdjsonRecord(NdjsonLine(lines[pos + 1])), g, pos + 1)

\* The next row of csv.reader that is not [] (DictReader skips those), from
\* position pos on: [found, row, pos].
RECURSIVE NextRow(_, _, _)
NextRow(lines, pos, delim) ==
    IF pos >= Len(lines) THEN [found |-> FALSE, row |-> <<>>, pos |-> pos]
    ELSE IF CsvRow(lines[pos + 1], delim) = <<>> THEN NextRow(lines, pos + 1, delim)
    ELSE [found |-> TRUE, row |-> CsvRow(lines[pos + 1], delim), pos |-> pos + 1]

\* for row in csv.DictReader(f, delimiter=delim): the first resumption reads
\* the header row (whatever it is, [] for an empty line) as the fieldnames.
DictReaderNext(g, isOpen, pos, lines, delim) ==
    IF ~isOpen THEN Raise(ClosedFileError, g, pos)
    ELSE IF ~g.has_fieldnames /\ pos >= Len(lines) THEN Stop(g, pos)
    ELSE LET names == IF g.has_fieldnames THEN g.fieldnames
                      ELSE CsvRow(lines[pos + 1], delim)
             p == IF g.has_fieldnames THEN pos ELSE pos + 1
             g2 == [g EXCEPT !.has_fieldnames = TRUE, !.fieldnames = names]
             r == NextRow(lines, p, delim)
         IN  IF r.found THEN Yield(DictRow(names, r.row), g2, r.pos)
             ELSE Stop(g2, r.pos)

\* delim = csv_delimiter if csv_delimiter is not None else ","
CsvDelimiter(csv_delimiter) == IF csv_delimiter # "<None>" THEN csv_delimiter ELSE ","

_parse_csv(g, isOpen, pos, lines, csv_delimiter) ==
    DictReaderNext(g, isOpen, pos, lines, CsvDelimiter(csv_delimiter))

\* csv.DictReader(f, delimiter="\t"): csv_delimiter is not looked at.
TsvDelimiter == "\t"

_parse_tsv(g, isOpen, pos, lines) == DictReaderNext(g, isOpen, pos, lines, TsvDelimiter)

\* The records of a whole document, yielded one per resumption.
YieldItems(g, items, pos) ==
    IF items = <<>> THEN Stop(g, pos)
    ELSE Yield(Head(items), [g EXCEPT !.items = Tail(items)], pos)

\* data = json.load(f) on the first resumption reads the stream to its end.
_parse_json(g, isOpen, pos, lines) ==
    IF g.st # "created" THEN YieldItems(g, g.items, pos)
    ELSE IF ~isOpen THEN Raise(ClosedFileError, g, pos)
    ELSE LET m == JsonLoads(Concat(SubSeq(lines, pos + 1, Len(lines))))
         IN  IF ~m.ok THEN Raise(JSONDecodeError, g, Len(lines))
             ELSE YieldItems(g, JsonDocRecords(m.val), Len(lines))

_parse_xml(g, isOpen, pos, lines) ==
    IF g.st # "created" THEN YieldItems(g, g.items, pos)
    ELSE IF ~isOpen THEN Raise(ClosedFileError, g, pos)
    ELSE LET m == EtParse(Concat(SubSeq(lines, pos + 1, Len(lines))))
         IN  IF ~m.ok THEN Raise(ParseError, g, Len(lines))
             ELSE YieldItems(g, [i \in 1..Len(m.root) |-> XmlRecord(m.root[i])],
                             Len(lines))

_parse_ini(g, isOpen, pos, lines) ==
    IF g.st # "created" THEN YieldItems(g, g.items, pos)
    ELSE IF ~isOpen THEN Raise(ClosedFileError, g, pos)
    ELSE LET m == IniRead(lines, pos)
         IN  IF ~m.ok THEN Raise(MissingSectionHeaderError, g, m.pos)
             ELSE YieldItems(g, [i \in 1..Len(m.sections) |-> IniRecord(m.sections[i])],
                             m.pos)

\* next(gen) on a frame that can still run: the decoder's body resumes.
Resume(g, isOpen, pos, lines, c) ==
    CASE g.fn = "_parse_csv" -> _parse_csv(g, isOpen, pos, lines, c.csv_delimiter)
      [] g.fn = "_parse_tsv" -> _parse_tsv(g, isOpen, pos, lines)
      [] g.fn = "_parse_json" -> _parse_json(g, isOpen, pos, lines)
      [] g.fn = "_parse_ndjson" -> _parse_ndjson(g, isOpen, pos, lines)
      [] g.fn = "_parse_xml" -> _parse_xml(g, isOpen, pos, lines)
      [] g.fn = "_parse_ini" -> _parse_ini(g, isOpen, pos, lines)
      [] g.fn = "_parse_text" -> _parse_text(g, isOpen, pos, lines)
      [] g.fn = "_parse_fixed_width" ->
            _parse_fixed_width(g, isOpen, pos, lines, c.fixed_schema)
      [] g.fn = "_parse_unknown" -> _parse_unknown(g, isOpen, pos, lines)

\* next(gen): a frame that ended, raised or was closed only stops.
GenNext(g, isOpen, pos, lines, c) ==
    IF g.st \in {"created", "suspended"} THEN Resume(g, isOpen, pos, lines, c)
    ELSE [kind |-> "stop", rec |-> EmptyDict, err |-> NoErr, g |-> g, pos |-> pos]

\* list(gen): next(gen) until it stops or raises; o is what the last next(gen)
\* came to.
RECURSIVE ListOf(_, _, _, _, _, _), ListAppend(_, _, _, _, _)
ListAppend(o, isOpen, lines, c, acc) ==
    IF o.kind = "yield" THEN ListOf(o.g, isOpen, o.pos, lines, c, Append(acc, o.rec))
    ELSE [kind |-> o.kind, recs |-> acc, err |-> o.err, g |-> o.g, pos |-> o.pos]

ListOf(g, isOpen, pos, lines, c, acc) ==
    ListAppend(GenNext(g, isOpen, pos, lines, c), isOpen, lines, c, acc)

(***************************************************************************)
(* The dispatcher: FileParser.parse.                                       *)
(***************************************************************************)

\* A stream: closed or open, with the number of lines read from it, and
\* whether parse is to close it (close_after).
UnopenedFile == [state |-> "unopened", pos |-> 0, close_after |-> FALSE]
OpenStream == [state |-> "open", pos |-> 0, close_after |-> FALSE]

\* f = _open_file(path, encoding=self.encoding): the file, open at its start.
_open_file(path) == [state |-> "open", pos |-> 0, close_after |-> FALSE]

\* A dispatcher that took every stream for its own.
AcquireOwning(c, h) ==
    IF c.source = "path"
    THEN [_open_file(c.name) EXCEPT !.close_after = TRUE]
    ELSE [h EXCEPT !.close_after = TRUE]

\* Lines 114-119: a path is opened and owned, a stream is used as it is.
Acquire(c, h) ==
    IF c.source = "path"
    THEN [_open_file(c.name) EXCEPT !.close_after = TRUE]
    ELSE [h EXCEPT !.close_after = FALSE]

\* A dispatcher without the finally clause.
CloseAfterNever(h, close_after) == h

\* finally: if close_after: f.close()
CloseAfter(h, close_after) ==
    IF close_after THEN [h EXCEPT !.state = "closed"] ELSE h

\* return list(gen): the list, or the exception list(gen) raised.
ReturnList(l) ==
    IF l.kind = "raise"
    THEN [raised |-> TRUE, err |-> l.err, gen |-> l.g, result |-> "none",
          out |-> <<>>, pos |-> l.pos]
    ELSE [raised |-> FALSE, err |-> NoErr, gen |-> l.g, result |-> "list",
          out |-> l.recs, pos |-> l.pos]

\* return gen if stream else list(gen): the try block of parse, on the
\* acquired stream h.  [raised, err, gen, result, out, pos]
TryBlock(c, h, lines, fn) ==
    IF c.stream
    THEN [raised |-> FALSE, err |-> NoErr, gen |-> NewGen(fn), result |-> "gen",
          out |-> <<>>, pos |-> h.pos]
    ELSE ReturnList(ListOf(NewGen(fn), h.state = "open", h.pos, lines, c, <<>>))

\* The finally clause, after the try block came to t on the stream f.
Finally(t, f) ==
    [raised |-> t.raised, err |-> t.err, gen |-> t.gen, result |-> t.result,
     out |-> t.out, handle |-> CloseAfter([f EXCEPT !.pos = t.pos], f.close_after)]

\* Lines 112-131: the decoder is looked up, the stream acquired, the try block
\* run and the stream released.
Dispatch(c, f, lines, fmt) == Finally(TryBlock(c, f, lines, parser_map[fmt]), f)

\* A dispatcher that looked the decoder up only after acquiring the stream.
CheckFormatLate(c, h, lines, fmt) ==
    IF fmt \notin DOMAIN parser_map
    THEN [raised |-> TRUE, err |-> UnsupportedFormatError(fmt), gen |-> NoGen,
          result |-> "none", out |-> <<>>,
          handle |-> CloseAfter(Acquire(c, h), c.source = "path")]
    ELSE Dispatch(c, Acquire(c, h), lines, fmt)

\* Lines 109-110 and what follows them.
CheckFormat(c, h, lines, fmt) ==
    IF fmt \notin DOMAIN parser_map
    THEN [raised |-> TRUE, err |-> UnsupportedFormatError(fmt), gen |-> NoGen,
          result |-> "none", out |-> <<>>, handle |-> h]
    ELSE Dispatch(c, Acquire(c, h), lines, fmt)

\* parse(path, fmt, csv_delimiter=, fixed_schema=, stream=) as a whole:
\* [raised, err, gen, result, out, handle].
parse(c, h, lines) == CheckFormat(c, h, lines, ResolveFormat(c.fmt, c.name))

(***************************************************************************)
(* The command-line adapter's reading of --fixed-schema (lines 247-256).   *)
(***************************************************************************)
IsInt(w) == w # <<>> /\ \A i \in 1..Len(w) : w[i] \in Digits

RECURSIVE DecimalValue(_, _)
DecimalValue(w, acc) ==
    IF w = <<>> THEN acc ELSE DecimalValue(Tail(w), 10 * acc + DigitVal(Head(w)))

\* The loop over parts: "usage" at the first part without a colon, "error" when
\* int() rejects a width, else the schema.
RECURSIVE SchemaParts(_, _, _)
SchemaParts(parts, i, schema) ==
    IF i > Len(parts) THEN [kind |-> "ok", schema |-> schema]
    ELSE IF IndexOf(parts[i], ":", 1) = 0 THEN [kind |-> "usage", schema |-> <<>>]
    ELSE LET nw == Split1(parts[i], ":")
             width == Strip(nw[2])
         IN  IF ~IsInt(width) THEN [kind |-> "error", schema |-> <<>>]
             ELSE SchemaParts(parts, i + 1,
                      Append(schema, <<Join(Strip(nw[1])), DecimalValue(width, 0)>>))

\* if args.fixed_schema: ... else fixed_schema stays None
ReadFixedSchema(arg) ==
    IF arg = None \/ arg = <<>> THEN [kind |-> "none", schema |-> <<>>]
    ELSE SchemaParts(Split(arg, ","), 1, <<>>)

(***************************************************************************)
(* State.                                                                  *)
(***************************************************************************)
VARIABLES
    caller,      \* "api": a program calling parse; "cli": the __main__ script;
                 \* "decoder": a decoder fed lines directly
    call,        \* the arguments of the parse call
    file,        \* the lines of the file or stream being parsed
    handle,      \* the stream parse reads: the opened file or the caller's stream
    pc,          \* where the caller is
    gen,         \* the decoder's generator frame
    result,      \* what parse returned: "none", "gen" or "list"
    out,         \* the records the caller got, in order
    err,         \* the exception the caller got, and from which call
    requests,    \* next() calls made on the lazy sequence
    parse_calls, \* calls of parse
    argv,        \* the command line: path, format, fixed_schema, stream
    stderr,      \* lines printed to sys.stderr
    main_ret,    \* what main() returned
    exit_status, \* the process's exit status, -1 while it runs
    dec          \* a decoder fed one unit at a time: the unit, its record, counts

vars == <<caller, call, file, handle, pc, gen, result, out, err, requests,
          parse_calls, argv, stderr, main_ret, exit_status, dec>>

cliVars == <<argv, stderr, main_ret, exit_status>>

(***************************************************************************)
(* Inputs.                                                                 *)
(***************************************************************************)
MaxLines == 2

\* The lines files are made of.
FileLines ==
    { <<"{", "\"", "a", "\"", ":", "1", "}", "\n">>,
      <<"a", ",", "1", "\n">>,
      <<"<", "r", "/", ">", "\n">>,
      <<"\n">> }

\* A file whose last line stands without its newline.
Unterminated(f) ==
    [f EXCEPT ![Len(f)] = SubSeq(f[Len(f)], 1, Len(f[Len(f)]) - 1)]

TerminatedFiles == UNION {[1..n -> FileLines] : n \in 0..MaxLines}

Files ==
    TerminatedFiles \cup
    {Unterminated(f) : f \in {g \in TerminatedFiles : g # <<>> /\ g[Len(g)] # <<"\n">>}}

\* Paths, and the names of streams (<<>>: a stream without a name).
Names ==
    { <<>>,
      <<"d", ".", "c", "s", "v">>,
      <<"d", ".", "J", "S", "O", "N">>,
      <<"d", ".", "j", "s", "o", "n", "l">>,
      <<"d", ".", "x">> }

\* fmt arguments: None, the registered tags, and tags that are not registered.
Formats ==
    { None,
      <<"c", "s", "v">>, <<"t", "s", "v">>, <<"j", "s", "o", "n">>,
      <<"n", "d", "j", "s", "o", "n">>, <<"j", "s", "o", "n", "l">>,
      <<"x", "m", "l">>, <<"i", "n", "i">>, <<"t", "e", "x", "t">>,
      <<"l", "o", "g">>, <<"f", "i", "x", "e", "d">>,
      <<"u", "n", "k", "n", "o", "w", "n">>,
      <<"F", "i", "x", "e", "d">>, <<"y", "a", "m", "l">>, <<"Y", "A", "M", "L">>,
      <<>> }

Schemas == {NoSchema, Schema(<<>>), Schema(<<<<"a", 1>>, <<"b", 2>>>>)}

Delimiters == {"<None>", ":"}

NoErrAt == [at |-> "none", type |-> "", msg |-> ""]
ErrAt(at, e) == [at |-> at, type |-> e.type, msg |-> e.msg]

NoArgv == [path |-> <<>>, format |-> None, fixed_schema |-> None, stream |-> TRUE]

NoCall ==
    [source |-> "path", name |-> <<>>, fmt |-> None, csv_delimiter |-> "<None>",
     fixed_schema |-> NoSchema, stream |-> TRUE]

\* The decoder fed one unit at a time: the unit last read (a line, or a child
\* element of the root), whether a record was yielded for it and which, how
\* many units were read and records yielded, and what a check needs of the
\* run so far: the lines that were not blank, whether a line failed to parse,
\* the field names of the first record (of a row not shorter than the header).
Unset == {"<unset>"}

NoDec ==
    [unit |-> <<>>, yielded |-> FALSE, rec |-> EmptyDict, units |-> 0, recs |-> 0,
     nonblank |-> 0, had_raw |-> FALSE, eof |-> FALSE, keys0 |-> Unset]

(***************************************************************************)
(* A program calling parse and consuming what it returns.                  *)
(***************************************************************************)
Init ==
    /\ caller = "api"
    /\ call \in [source : {"path", "stream"}, name : Names, fmt : Formats,
                 csv_delimiter : Delimiters, fixed_schema : Schemas,
                 stream : BOOLEAN]
    /\ call.source = "path" => call.name # <<>>
    /\ call.csv_delimiter # "<None>" => ResolveFormat(call.fmt, call.name) = "csv"
    /\ call.fixed_schema.pairs # <<>> => ResolveFormat(call.fmt, call.name) = "fixed"
    /\ file \in Files
    /\ handle = IF call.source = "path" THEN UnopenedFile ELSE OpenStream
    /\ pc = "call"
    /\ gen = NoGen
    /\ result = "none"
    /\ out = <<>>
    /\ err = NoErrAt
    /\ requests = 0
    /\ parse_calls = 0
    /\ argv = NoArgv
    /\ stderr = <<>>
    /\ main_ret = "unset"
    /\ exit_status = -1
    /\ dec = NoDec

\* gen_or_list = fp.parse(...)
Parse ==
    /\ pc = "call"
    /\ \E r \in {parse(call, handle, file)} :
           /\ pc' = IF r.raised THEN "raised" ELSE "returned"
           /\ err' = IF r.raised THEN ErrAt("parse", r.err) ELSE err
           /\ gen' = r.gen
           /\ result' = r.result
           /\ out' = r.out
           /\ handle' = r.handle
    /\ parse_calls' = parse_calls + 1
    /\ UNCHANGED <<caller, call, file, requests, cliVars, dec>>

\* next(gen) by the consumer of the lazy sequence.
ConsumerNext ==
    /\ caller = "api"
    /\ pc = "returned"
    /\ result = "gen"
    /\ \E o \in {GenNext(gen, handle.state = "open", handle.pos, file, call)} :
           /\ gen' = o.g
           /\ handle' = [handle EXCEPT !.pos = o.pos]
           /\ out' = IF o.kind = "yield" THEN Append(out, o.rec) ELSE out
           /\ err' = IF o.kind = "raise" THEN ErrAt("next", o.err) ELSE err
           /\ pc' = CASE o.kind = "yield" -> "returned"
                      [] o.kind = "stop" -> "exhausted"
                      [] o.kind = "raise" -> "failed"
    /\ requests' = requests + 1
    /\ UNCHANGED <<caller, call, file, result, parse_calls, cliVars, dec>>

\* The consumer stops iterating and drops the sequence: the frame is closed
\* where it stands (GeneratorExit at the yield; no decoder has a finally).
ConsumerAbandon ==
    /\ caller = "api"
    /\ pc = "returned"
    /\ result = "gen"
    /\ gen' = [gen EXCEPT !.st = "closed"]
    /\ pc' = "abandoned"
    /\ UNCHANGED <<caller, call, file, handle, result, out, err, requests,
                   parse_calls, cliVars, dec>>

Next == Parse \/ ConsumerNext \/ ConsumerAbandon

Spec == Init /\ [][Next]_vars

(***************************************************************************)
(* Properties of parse and of the sequence it returns (Spec).              *)
(***************************************************************************)

\* The format tag of the call, as parse looks it up.
Tag == ResolveFormat(call.fmt, call.name)

\* The records the decoder of the call yields from the file read on an open
\* stream, from its start to its end.
Decoded == ListOf(NewGen(parser_map[Tag]), TRUE, 0, file, call, <<>>).recs

\* C1: after parse(path, stream=True) has returned, the consumer's requests
\* are answered with the records of the file, one per decoding unit, in source
\* order: after n requests it holds the first n records (all of them when the
\* file has fewer).
C1_LazyPathSequence ==
    (caller = "api" /\ call.source = "path" /\ call.stream /\ result = "gen")
        => out = SubSeq(Decoded, 1, Min(requests, Len(Decoded)))

\* C2: a file parse opened from a path is closed whenever parse is over,
\* however it ended and whatever the consumer does with the sequence.
C2_OwnedHandleReleased ==
    (caller = "api" /\ call.source = "path" /\ pc # "call")
        => handle.state \in {"unopened", "closed"}

\* A file was opened, its decoder failed, and the file is closed.
C2_Witness ==
    /\ caller = "api" /\ call.source = "path"
    /\ pc = "raised" /\ err.type = "JSONDecodeError"
    /\ handle.close_after /\ handle.state = "closed"

\* C3: a stream handed to parse is open at every moment: parse does not
\* close it, in lazy or eager mode, returning, failing or abandoned.
C3_CallerStreamOpen ==
    (caller = "api" /\ call.source = "stream") => handle.state = "open"

\* A stream was read to its end by an eager parse, and is open.
C3_Witness ==
    /\ caller = "api" /\ call.source = "stream" /\ ~call.stream
    /\ pc = "returned" /\ result = "list" /\ Len(out) > 0
    /\ handle.pos = Len(file) /\ handle.state = "open"

\* C4: a fixed-width parse without a schema (None or empty) is failed by the
\* parse call itself, with stream true or false, no line read and no record
\* produced.
C4_NoSchemaFailsInParse ==
    (caller = "api" /\ pc # "call" /\ Tag = "fixed" /\ SchemaMissing(call.fixed_schema))
        => /\ err = ErrAt("parse", SchemaRequiredError)
           /\ result = "none"
           /\ handle.pos = 0
           /\ out = <<>>

\* An eager parse (stream=False) of an empty input in a format that has a
\* decoder, the fixed-width one with its schema, is over.
EmptyEager ==
    /\ caller = "api" /\ pc # "call"
    /\ file = <<>> /\ ~call.stream
    /\ Tag \in DOMAIN parser_map
    /\ Tag = "fixed" => ~SchemaMissing(call.fixed_schema)

\* C5 as stated: every such parse returns the empty list.
C5_EmptyNeverRaises ==
    EmptyEager => (pc = "returned" /\ result = "list" /\ out = <<>>)

\* C5, amended: on an empty input the line, row and section decoders (csv,
\* tsv, ndjson, ini, text, fixed with a schema, unknown) return the empty
\* list; the whole-document decoders json and xml make parse raise their
\* parse error.
C5_EmptyInputEager ==
    EmptyEager =>
        IF Tag \in {"json", "xml"}
        THEN /\ pc = "raised"
             /\ err.at = "parse"
             /\ err.type = (IF Tag = "json" THEN "JSONDecodeError" ELSE "ParseError")
        ELSE /\ pc = "returned" /\ result = "list" /\ out = <<>>
             /\ err = NoErrAt

\* An empty input was parsed as xml, and parse raised.
C5_Witness == EmptyEager /\ Tag = "xml" /\ pc = "raised" /\ err.type = "ParseError"

\* C6: a tag without a decoder in parser_map makes parse raise "Unsupported
\* format: <tag>" before anything else: the path is not opened, the stream
\* not read, no decoder made and no record produced.
C6_UnsupportedFormat ==
    (caller = "api" /\ pc # "call" /\ Tag \notin DOMAIN parser_map)
        => /\ pc = "raised"
           /\ err = [at |-> "parse", type |-> "ValueError",
                     msg |-> "Unsupported format: " \o Tag]
           /\ handle = (IF call.source = "path" THEN UnopenedFile ELSE OpenStream)
           /\ gen = NoGen
           /\ result = "none" /\ out = <<>> /\ requests = 0

\* parse(path, "YAML") raised, naming yaml, with the file never opened.
C6_Witness ==
    /\ caller = "api" /\ call.source = "path" /\ call.fmt = <<"Y", "A", "M", "L">>
    /\ pc = "raised" /\ err.msg = "Unsupported format: yaml"
    /\ handle.state = "unopened"

(***************************************************************************)
(* The command-line adapter: python file_parser.py PATH [options].         *)
(***************************************************************************)
MaxArgLen == 3

ArgChars == {"a", ":", "1", ",", " "}

\* Values of --fixed-schema: absent, every short text, and two longer ones.
SchemaArgs ==
    {None} \cup UNION {[1..n -> ArgChars] : n \in 0..MaxArgLen} \cup
    { <<"a", ":", "1", ",", "b", ":", "2">>, <<"a", ":", "1", ",", "b">> }

UsageMessage == "Invalid fixed-schema format, expected name:width"

IntError == [type |-> "ValueError", msg |-> "invalid literal for int() with base 10"]

\* The arguments main passes to fp.parse (lines 258-262).
CallOf(a, fixed_schema) ==
    [source |-> "path", name |-> a.path, fmt |-> a.format, csv_delimiter |-> "<None>",
     fixed_schema |-> fixed_schema, stream |-> a.stream]

\* if __name__ == "__main__": main().  What main returns is dropped: the
\* status is 0 when main returns and 1 when an exception leaves it.
ProcessStatus(raised, ret) == IF raised THEN 1 ELSE 0

InitCli ==
    /\ caller = "cli"
    /\ argv \in [path : {<<"d", ".", "x">>},
                 format : {None, <<"f", "i", "x", "e", "d">>},
                 fixed_schema : SchemaArgs,
                 stream : BOOLEAN]
    /\ call = NoCall
    /\ file \in Files
    /\ handle = UnopenedFile
    /\ pc = "main"
    /\ gen = NoGen
    /\ result = "none"
    /\ out = <<>>
    /\ err = NoErrAt
    /\ requests = 0
    /\ parse_calls = 0
    /\ stderr = <<>>
    /\ main_ret = "unset"
    /\ exit_status = -1
    /\ dec = NoDec

\* main up to the call of parse (lines 243-256): the schema is read, and main
\* returns 2 after the usage message or is left by int()'s ValueError.
CliReadArgs ==
    /\ caller = "cli"
    /\ pc = "main"
    /\ \E r \in {ReadFixedSchema(argv.fixed_schema)} :
           /\ stderr' = IF r.kind = "usage" THEN Append(stderr, UsageMessage) ELSE stderr
           /\ main_ret' = IF r.kind = "usage" THEN "2" ELSE main_ret
           /\ err' = IF r.kind = "error" THEN ErrAt("main", IntError) ELSE err
           /\ pc' = CASE r.kind = "usage" -> "main_returned"
                      [] r.kind = "error" -> "main_raised"
                      [] OTHER -> "call"
           /\ call' = CASE r.kind = "ok" -> CallOf(argv, Schema(r.schema))
                        [] r.kind = "none" -> CallOf(argv, NoSchema)
                        [] OTHER -> call
    /\ UNCHANGED <<caller, file, handle, gen, result, out, requests, parse_calls,
                   argv, exit_status, dec>>

\* for rec in gen_or_list: print(json.dumps(rec)): one turn of the loop.
CliIterate ==
    /\ caller = "cli"
    /\ pc = "returned"
    /\ result = "gen"
    /\ \E o \in {GenNext(gen, handle.state = "open", handle.pos, file, call)} :
           /\ gen' = o.g
           /\ handle' = [handle EXCEPT !.pos = o.pos]
           /\ out' = IF o.kind = "yield" THEN Append(out, o.rec) ELSE out
           /\ err' = IF o.kind = "raise" THEN ErrAt("next", o.err) ELSE err
           /\ main_ret' = IF o.kind = "stop" THEN "None" ELSE main_ret
           /\ pc' = CASE o.kind = "yield" -> "returned"
                      [] o.kind = "stop" -> "main_returned"
                      [] o.kind = "raise" -> "main_raised"
    /\ requests' = requests + 1
    /\ UNCHANGED <<caller, call, file, result, parse_calls, argv, stderr,
                   exit_status, dec>>

\* pprint.pprint(gen_or_list), and main returns None.
CliPrintList ==
    /\ caller = "cli"
    /\ pc = "returned"
    /\ result = "list"
    /\ main_ret' = "None"
    /\ pc' = "main_returned"
    /\ UNCHANGED <<caller, call, file, handle, gen, result, out, err, requests,
                   parse_calls, argv, stderr, exit_status, dec>>

\* The script ends: main returned, or an exception left it (from parse, from
\* the loop or from int()).
CliExit ==
    /\ caller = "cli"
    /\ pc \in {"main_returned", "main_raised", "raised"}
    /\ exit_status' = ProcessStatus(pc # "main_returned", main_ret)
    /\ pc' = "exited"
    /\ UNCHANGED <<caller, call, file, handle, gen, result, out, err, requests,
                   parse_calls, argv, stderr, main_ret, dec>>

NextCli == CliReadArgs \/ Parse \/ CliIterate \/ CliPrintList \/ CliExit

SpecCli == InitCli /\ [][NextCli]_vars

\* A pair that is not name:width with an integer width, and a value of
\* --fixed-schema holding one.
MalformedPair(part) ==
    IndexOf(part, ":", 1) = 0 \/ ~IsInt(Strip(Split1(part, ":")[2]))

Malformed(arg) ==
    /\ arg \notin {None, <<>>}
    /\ \E part \in {Split(arg, ",")[i] : i \in 1..Len(Split(arg, ","))} :
           MalformedPair(part)

\* C8: with a malformed pair in --fixed-schema parse is never called, and the
\* process ends with status 2 and the usage message on the error stream.
C8_MalformedSchemaExits2 ==
    (caller = "cli" /\ Malformed(argv.fixed_schema))
        => /\ parse_calls = 0
           /\ pc = "exited" => (exit_status = 2 /\ stderr = <<UsageMessage>>)

(***************************************************************************)
(* The decoders on an open stream, fed one line (or one child element) at  *)
(* a time: each step is one turn of the decoder's loop.  Lines are every   *)
(* text of up to MaxLineLen characters over a small alphabet and a few     *)
(* longer ones, with or without the newline; a line without it is the last *)
(* of its stream.  A run reads up to MaxUnits units.                       *)
(***************************************************************************)
MaxLineLen == 3
MaxUnits == 3
MaxSubs == 2

Texts(chars) == UNION {[1..n -> chars] : n \in 0..MaxLineLen}

\* Bodies with their newline, and the non-empty ones without.
LinesOf(bodies) ==
    {Append(b, "\n") : b \in bodies} \cup {b \in bodies : b # <<>>}

NdjsonLines ==
    LinesOf(Texts({"1", "a", " "}) \cup
            { <<"{">>, <<"{", "}">>, <<"{", " ", "}">>, <<"}", "{">>,
              <<"{", "}", "1">>,
              <<"{", "\"", "a", "\"", ":", "1", "}">>,
              <<" ", "{", "\"", "a", "\"", ":", "1", "}", " ">>,
              <<"[", "1", "]">>,
              <<"\"", "a", " ", "\"">> })

FixedLines == LinesOf(Texts({"a", "b", " "}))

\* Rows for a reader splitting on delim, and one with the other delimiter too.
CsvLines(delim) == LinesOf(Texts({"a", delim}) \cup {<<"a", ",", "\t">>})

FixedSchemas ==
    { Schema(<<<<"a", 1>>, <<"b", 1>>>>),
      Schema(<<<<"a", 1>>, <<"b", 2>>>>),
      Schema(<<<<"a", 2>>, <<"b", 2>>>>),
      Schema(<<<<"a", 1>>, <<"a", 2>>>>),
      Schema(<<<<"_line_no", 1>>, <<"b", 2>>>>) }

\* The direct children of a document's root, as ElementTree hands them over:
\* attributes, sub-elements (tag, text) and text.
XmlSubs ==
    { [tag |-> "c", text |-> None], [tag |-> "c", text |-> <<"1">>],
      [tag |-> "x", text |-> <<"1">>] }

XmlChildren ==
    [attrib : {<<>>, << <<"x", <<"1">>>> >>},
     subs : UNION {[1..n -> XmlSubs] : n \in 0..MaxSubs},
     text : {None, <<" ">>, <<" ", "t", "\n">>}]

HasNewline(line) == line # <<>> /\ line[Len(line)] = "\n"

\* A line holding a character that is not white space.
NonBlank(line) == \E i \in 1..Len(line) : line[i] \notin Whitespace

\* The fields of a line: one more than its delimiters, none for an empty line.
FieldCount(line, delim) ==
    IF line \in {<<>>, <<"\n">>} THEN 0
    ELSE 1 + Cardinality({i \in 1..Len(line) : line[i] = delim})

\* The delimiter the running decoder splits on.
DelimiterOf(fn, c) == IF fn = "_parse_tsv" THEN TsvDelimiter ELSE CsvDelimiter(c.csv_delimiter)

DecoderCall(fixed_schema, csv_delimiter) ==
    [NoCall EXCEPT !.source = "stream", !.fixed_schema = fixed_schema,
                   !.csv_delimiter = csv_delimiter]

InitDecode ==
    /\ caller = "decoder"
    /\ \E fn \in {"_parse_ndjson", "_parse_fixed_width", "_parse_csv", "_parse_tsv",
                  "_parse_xml"} :
           /\ gen = NewGen(fn)
           /\ \E fixed_schema \in FixedSchemas \cup {NoSchema}, d \in {"<None>", "\t"} :
                  /\ (fixed_schema # NoSchema) = (fn = "_parse_fixed_width")
                  /\ d # "<None>" => fn = "_parse_csv"
                  /\ call = DecoderCall(fixed_schema, d)
    /\ file = <<>>
    /\ handle = OpenStream
    /\ pc = "decoding"
    /\ result = "gen"
    /\ out = <<>>
    /\ err = NoErrAt
    /\ requests = 0
    /\ parse_calls = 0
    /\ argv = NoArgv
    /\ stderr = <<>>
    /\ main_ret = "unset"
    /\ exit_status = -1
    /\ dec = NoDec

\* dec after a unit was read and rec yielded for it (or nothing, yielded =
\* FALSE: the loop went on to the next unit).
Fed(unit, yielded, rec, comparable) ==
    [dec EXCEPT !.unit = unit, !.yielded = yielded, !.rec = rec,
                !.units = @ + 1,
                !.recs = IF yielded THEN @ + 1 ELSE @,
                !.keys0 = IF yielded /\ comparable /\ @ = Unset THEN DOMAIN rec ELSE @]

CanFeed(fn) ==
    /\ caller = "decoder"
    /\ gen.fn = fn
    /\ gen.st \in {"created", "suspended"}
    /\ ~dec.eof
    /\ dec.units < MaxUnits

decodeFrame == <<caller, call, file, handle, pc, result, out, err, requests,
                 parse_calls, cliVars>>

\* One turn of the loop of _parse_ndjson (lines 158-167).
DecodeNdjsonLine ==
    /\ CanFeed("_parse_ndjson")
    /\ \E line \in NdjsonLines :
           \E l \in {NdjsonLine(line)} :
               dec' = [Fed(line, l # <<>>,
                           IF l # <<>> THEN NdjsonRecord(l) ELSE EmptyDict, TRUE)
                       EXCEPT !.nonblank = IF NonBlank(line) THEN @ + 1 ELSE @,
                              !.had_raw = @ \/ (dec.yielded /\ "raw" \in DOMAIN dec.rec),   \* of the lines before this one
                              !.eof = ~HasNewline(line)]
    /\ gen' = [gen EXCEPT !.st = "suspended"]
    /\ UNCHANGED decodeFrame

\* One turn of the loop of _parse_fixed_width (lines 216-227).
DecodeFixedLine ==
    /\ CanFeed("_parse_fixed_width")
    /\ ~SchemaMissing(call.fixed_schema)
    /\ \E line \in FixedLines :
           dec' = [Fed(line, TRUE,
                       FixedRecord(call.fixed_schema.pairs, line, gen.line_no + 1), TRUE)
                   EXCEPT !.eof = ~HasNewline(line)]
    /\ gen' = [gen EXCEPT !.st = "suspended", !.line_no = @ + 1]
    /\ UNCHANGED decodeFrame

\* csv.DictReader reads its fieldnames: the first row, whatever it is.
DecodeCsvHeader ==
    /\ \E fn \in {"_parse_csv", "_parse_tsv"} : CanFeed(fn)
    /\ ~gen.has_fieldnames
    /\ \E line \in CsvLines(DelimiterOf(gen.fn, call)) :
           /\ dec' = [Fed(line, FALSE, EmptyDict, FALSE) EXCEPT !.eof = ~HasNewline(line)]
           /\ gen' = [gen EXCEPT !.has_fieldnames = TRUE,
                                 !.fieldnames = CsvRow(line, DelimiterOf(gen.fn, call))]
    /\ UNCHANGED decodeFrame

\* One row of csv.DictReader: an empty row is passed over, any other yields.
DecodeCsvRow ==
    /\ \E fn \in {"_parse_csv", "_parse_tsv"} : CanFeed(fn)
    /\ gen.has_fieldnames
    /\ \E line \in CsvLines(DelimiterOf(gen.fn, call)) :
           \E row \in {CsvRow(line, DelimiterOf(gen.fn, call))} :
               dec' = [Fed(line, row # <<>>,
                           IF row # <<>> THEN DictRow(gen.fieldnames, row) ELSE EmptyDict,
                           FieldCount(line, DelimiterOf(gen.fn, call)) >= Len(gen.fieldnames))
                       EXCEPT !.eof = ~HasNewline(line)]
    /\ gen' = [gen EXCEPT !.st = "suspended"]
    /\ UNCHANGED decodeFrame

\* One turn of the loop of _parse_xml over the root's children (lines 174-190).
DecodeXmlChild ==
    /\ CanFeed("_parse_xml")
    /\ \E child \in XmlChildren :
           dec' = Fed(child, TRUE, XmlRecord(child), TRUE)
    /\ gen' = [gen EXCEPT !.st = "suspended"]
    /\ UNCHANGED decodeFrame

NextDecode ==
    \/ DecodeNdjsonLine
    \/ DecodeFixedLine
    \/ DecodeCsvHeader
    \/ DecodeCsvRow
    \/ DecodeXmlChild

SpecDecode == InitDecode /\ [][NextDecode]_vars

(***************************************************************************)
(* Properties of the decoders (SpecDecode), stated on the text of the line *)
(* last read.                                                              *)
(***************************************************************************)

\* The line without its newline.
Body(line) == IF HasNewline(line) THEN SubSeq(line, 1, Len(line) - 1) ELSE line

\* The text from the first to the last character that is not white space.
Inked(s) == {i \in 1..Len(s) : s[i] \notin Whitespace}

Trimmed(s) ==
    IF Inked(s) = {} THEN <<>>
    ELSE SubSeq(s, CHOOSE i \in Inked(s) : \A j \in Inked(s) : i <= j,
                   CHOOSE i \in Inked(s) : \A j \in Inked(s) : j <= i)

NdjsonStep == caller = "decoder" /\ gen.fn = "_parse_ndjson" /\ dec.units > 0

\* What C7 says of every line but the lines that fail to parse: the decoder
\* has not stopped, there is one record per non-blank line so far, and the
\* record of a line that parses is its mapping, or {value: ...}.
NdjsonParsedLines ==
    /\ gen.st = "suspended"
    /\ dec.recs = dec.nonblank
    /\ dec.yielded = NonBlank(dec.unit)
    /\ (dec.yielded /\ JsonLoads(Trimmed(dec.unit)).ok) =>
           IF JsonLoads(Trimmed(dec.unit)).val.t = "dict"
           THEN dec.rec = JsonLoads(Trimmed(dec.unit)).val.v
           ELSE /\ DOMAIN dec.rec = {"value"}
                /\ dec.rec["value"] = JsonLoads(Trimmed(dec.unit)).val

\* C7 as stated: the decoder never aborts, yields one record per non-blank
\* line, the mapping or {value: ...} of a line that parses, and keeps a line
\* that fails to parse verbatim (as read, or less its newline) under raw.
C7_RawVerbatim ==
    NdjsonStep =>
        /\ NdjsonParsedLines
        /\ (dec.yielded /\ ~JsonLoads(Trimmed(dec.unit)).ok) =>
               /\ DOMAIN dec.rec = {"raw"}
               /\ dec.rec["raw"] \in {StrV(dec.unit), StrV(Body(dec.unit))}

\* C7, amended: as above, but what raw holds of a line that fails to parse
\* is the line without the white space at its two ends.
C7_RawStripped ==
    NdjsonStep =>
        /\ NdjsonParsedLines
        /\ (dec.yielded /\ ~JsonLoads(Trimmed(dec.unit)).ok) =>
               /\ DOMAIN dec.rec = {"raw"}
               /\ dec.rec["raw"] = StrV(Trimmed(dec.unit))

\* After a line that failed to parse, a line with white space around a text
\* that fails to parse was read and its record yielded.
C7_Witness ==
    /\ NdjsonStep /\ dec.had_raw /\ dec.yielded
    /\ "raw" \in DOMAIN dec.rec
    /\ Trimmed(dec.unit) # Body(dec.unit)

\* The field names of a schema or of a header row.
SchemaNames(pairs) == {pairs[i][1] : i \in 1..Len(pairs)}

HeaderNames(names) == {Join(names[i]) : i \in 1..Len(names)}

\* A delimited row with fewer fields than the header.
ShortRow ==
    /\ gen.fn \in {"_parse_csv", "_parse_tsv"}
    /\ FieldCount(dec.unit, DelimiterOf(gen.fn, call)) < Len(gen.fieldnames)

\* A delimited row with more fields than the header.
LongRow ==
    /\ gen.fn \in {"_parse_csv", "_parse_tsv"}
    /\ FieldCount(dec.unit, DelimiterOf(gen.fn, call)) > Len(gen.fieldnames)

ShapedStep ==
    /\ caller = "decoder"
    /\ gen.fn \in {"_parse_csv", "_parse_tsv", "_parse_fixed_width", "_parse_xml"}
    /\ dec.yielded

\* C9 as stated: in one run over delimited, fixed-width or markup input every
\* record but those of short delimited rows has the field names of the first
\* such record.
C9_SameFieldNames ==
    (ShapedStep /\ ~ShortRow /\ dec.keys0 # Unset) => DOMAIN dec.rec = dec.keys0

\* C9, amended: every fixed-width record has the schema's names and
\* _line_no; every delimited record has the header's names, short rows too,
\* and only a row longer than the header has one more, the overflow field;
\* a markup record has the names its element gives it (its attributes and
\* sub-element tags, else text when it has text, else none), which differ
\* from element to element.
C9_FieldNames ==
    ShapedStep =>
        CASE gen.fn = "_parse_fixed_width" ->
                 DOMAIN dec.rec = SchemaNames(call.fixed_schema.pairs) \cup {"_line_no"}
          [] gen.fn \in {"_parse_csv", "_parse_tsv"} ->
                 DOMAIN dec.rec =
                     HeaderNames(gen.fieldnames) \cup (IF LongRow THEN {RestKey} ELSE {})
          [] gen.fn = "_parse_xml" ->
                 DOMAIN dec.rec \in
                     { {dec.unit.attrib[i][1] : i \in 1..Len(dec.unit.attrib)} \cup
                       {dec.unit.subs[i].tag : i \in 1..Len(dec.unit.subs)},
                       {"text"} }

\* A row shorter than its header was read, and its record has the names of
\* the record before it.
C9_Witness ==
    /\ ShapedStep /\ ShortRow /\ dec.recs > 1
    /\ Cardinality(dec.keys0) > 1
    /\ DOMAIN dec.rec = dec.keys0

FixedStep ==
    /\ caller = "decoder" /\ gen.fn = "_parse_fixed_width" /\ dec.units > 0
    /\ call.fixed_schema.pairs # <<>>

\* The offset of field i: the sum of the widths before it.
RECURSIVE Offset(_, _)
Offset(pairs, i) == IF i = 1 THEN 0 ELSE Offset(pairs, i - 1) + pairs[i - 1][2]

\* Field i of the line padded with spaces: the characters at its offset, a
\* space where the line has none, trimmed.
PaddedChar(body, k) == IF k <= Len(body) THEN body[k] ELSE " "

TrimmedSlice(pairs, body, i) ==
    StrV(Trimmed([k \in 1..pairs[i][2] |-> PaddedChar(body, Offset(pairs, i) + k)]))

\* C10 as stated: every line yields a record in which every field of the
\* schema holds the trimmed slice at its position and _line_no the index of
\* the line.
C10_EveryFieldItsSlice ==
    FixedStep =>
        /\ dec.yielded /\ gen.st = "suspended"
        /\ \A i \in 1..Len(call.fixed_schema.pairs) :
               /\ call.fixed_schema.pairs[i][1] \in DOMAIN dec.rec
               /\ dec.rec[call.fixed_schema.pairs[i][1]] =
                      TrimmedSlice(call.fixed_schema.pairs, Body(dec.unit), i)
        /\ dec.rec["_line_no"] = IntV(dec.units)

\* The fields of a schema that reach the record: the last of each name, and
\* none named _line_no.
Kept(pairs) ==
    {i \in 1..Len(pairs) :
        /\ pairs[i][1] # "_line_no"
        /\ \A j \in (i + 1)..Len(pairs) : pairs[j][1] # pairs[i][1]}

\* C10, amended: every line yields a record in which every field of the
\* schema whose name no later field bears, and which is not named _line_no,
\* holds the trimmed slice at its position; _line_no holds the index of the
\* line.
C10_KeptFieldItsSlice ==
    FixedStep =>
        /\ dec.yielded /\ gen.st = "suspended"
        /\ \A i \in Kept(call.fixed_schema.pairs) :
               /\ call.fixed_schema.pairs[i][1] \in DOMAIN dec.rec
               /\ dec.rec[call.fixed_schema.pairs[i][1]] =
                      TrimmedSlice(call.fixed_schema.pairs, Body(dec.unit), i)
        /\ dec.rec["_line_no"] = IntV(dec.units)

\* The second line, shorter than the schema is wide, was sliced: its second
\* field lies in the padding.
C10_Witness ==
    /\ FixedStep /\ dec.units = 2 /\ dec.yielded
    /\ call.fixed_schema.pairs = <<<<"a", 2>>, <<"b", 2>>>>
    /\ Body(dec.unit) = <<" ", "a">>
    /\ dec.rec["a"] = StrV(<<"a">>) /\ dec.rec["b"] = StrV(<<>>)
====
